---- MODULE Spec2Model ----
(***************************************************************************)
(* Task orchestration core of browser_use: TaskManager, StepManager,       *)
(* TaskMerger, ScratchpadManager and EnhancedAgent.add_new_task.           *)
(*                                                                         *)
(* Text is modelled as a sequence of tokens: a token is a character or an  *)
(* atomic run of characters ("STEP:", "MERGE").  Python's str operations   *)
(* (strip, startswith, slicing, split) are computed on those sequences.    *)
(***************************************************************************)
EXTENDS Integers, Sequences, FiniteSets, TLC

VARIABLES
    current_task,        \* TaskManager.current_task (NoTask when None)
    files,               \* the filesystem under base_dir: path -> document
    uuid_count,          \* number of identifiers drawn from uuid4 so far
    now,                 \* wall clock read by datetime.now(), in seconds
    paused,              \* a pause() call is not yet followed by resume()
    last,                \* the most recent call: operation and exception raised
    failed_transitions,  \* per step of current_task: transitions into FAILED
    n_updates,           \* successful status updates so far
    response,            \* planner reply under study (a sequence of lines)
    parsed_steps,        \* _parse_steps_from_llm_response(response)
    evaluator_reply,     \* evaluator reply under study
    merge_decision,      \* can_merge_tasks(evaluator_reply)
    step_obj,            \* a Step object under study
    step_call,           \* the last StepManager.update_step_status call on it
    sessions,            \* SocketManager.sessions: the dict's entries, in order
    agent_sid,           \* SocketManager.agent_sid (NoSid when None)
    set_agent_call,      \* a set_agent_session call suspended in sio.disconnect
    broadcast_call,      \* a broadcast_agent_event call suspended in sio.emit
    sm_last,             \* the most recent SocketManager call that ended
    live,                \* the connection ids the Socket.IO server has open
    agent_instance,      \* server.agent is an EnhancedAgent (FALSE: None)
    handler_last,        \* the most recent Socket.IO handler run that ended
    query,               \* a handshake query string under study
    connect_out,         \* what the connect handler sends for query
    add_call,            \* a TaskManager.add_task call suspended in an LLM call
    step_run,            \* an EnhancedAgent.step call suspended in the executor
    step_last,           \* the most recent EnhancedAgent.step call that ended
    history,             \* the successful status updates of one Task, in order
    calls                \* the create_task calls made, in the order they began

vars == <<current_task, files, uuid_count, now, paused, last,
          failed_transitions, n_updates, response, parsed_steps,
          evaluator_reply, merge_decision, step_obj, step_call,
          sessions, agent_sid, set_agent_call, broadcast_call, sm_last,
          live, agent_instance, handler_last, query, connect_out,
          add_call, step_run, step_last, history, calls>>

orchestrator_vars == <<current_task, files, uuid_count, now, paused, last,
                       failed_transitions, n_updates>>
planner_vars == <<response, parsed_steps>>
merger_vars == <<evaluator_reply, merge_decision>>
step_vars == <<step_obj, step_call>>
session_vars == <<sessions, agent_sid, set_agent_call, broadcast_call, sm_last>>
\* what the task-manager operations leave alone
server_vars == <<live, agent_instance, handler_last>>
connect_vars == <<query, connect_out>>
exec_vars == <<add_call, step_run, step_last>>
run_vars == <<exec_vars, history, calls>>
ext_vars == <<session_vars, server_vars, connect_vars, run_vars>>

\* ------------------------------------------------------------------ bounds

\* cap on the number of successful status updates of a run (this caps
\* Step.retry_count, which the code leaves unbounded)
MaxUpdates == 3
\* cap on Step.retry_count of the Step object under study
MaxRetryCount == 4
\* cap on the number of lines of a planner reply under study
MaxLines == 4
\* cap on the number of tokens of an evaluator reply under study
MaxReplyLen == 4
\* cap on the number of entries of the session dict (live and deleted)
MaxEntries == 3
\* cap on the number of tokens of a handshake query string under study
MaxQueryLen == 4
\* cap on the clock readings of a run
MaxNow == 2
\* cap on the create_task calls of a run that may overlap
MaxCalls == 3

\* ------------------------------------------------------- Python primitives

\* Optional[str] None for token-sequence values; no text has this token.
NoneStr == <<"<None>">>
\* Optional[str] None for atomic values (failure_details, exception names).
None == "None"

\* bool(x) of an Optional[str]: None and "" are falsy.
Truthy(s) == s # NoneStr /\ s # <<>>

RECURSIVE LStrip(_)
LStrip(s) == IF s # <<>> /\ Head(s) = " " THEN LStrip(Tail(s)) ELSE s

RECURSIVE RStrip(_)
RStrip(s) ==
    IF s # <<>> /\ s[Len(s)] = " " THEN RStrip(SubSeq(s, 1, Len(s) - 1)) ELSE s

\* str.strip()
Strip(s) == RStrip(LStrip(s))

\* str.startswith(p)
StartsWith(s, p) == Len(s) >= Len(p) /\ SubSeq(s, 1, Len(p)) = p

\* s[n:] where the first n characters of s are its first token
DropMarker(s) == Tail(s)

\* ------------------------------------------------------------------- views

OPEN == "open"
IN_PROGRESS == "in-progress"
COMPLETED == "completed"
FAILED == "failed"
HUMAN == "human"

StepStatus == {OPEN, IN_PROGRESS, COMPLETED, FAILED, HUMAN}

\* Step(description=..., reasoning=...) with the model's field defaults
Step(description, reasoning) ==
    [description |-> description, reasoning |-> reasoning, status |-> OPEN,
     failure_details |-> None, retry_count |-> 0]

\* ------------------------------------------------------------- StepManager

\* TaskManager.__init__(max_retries=3)
max_retries == 3

\* a variant that hands a step over to a human once its budget is used up
StepManager_update_step_status_Budget(step, new_status, failure_details) ==
    IF new_status = FAILED /\ step.retry_count >= max_retries
    THEN [step EXCEPT !.status = HUMAN, !.failure_details = failure_details]
    ELSE IF new_status = FAILED
    THEN [step EXCEPT !.status = new_status,
                      !.failure_details = failure_details,
                      !.retry_count = @ + 1]
    ELSE [step EXCEPT !.status = new_status]

\* a variant that does not count the failure
StepManager_update_step_status_NoIncrement(step, new_status, failure_details) ==
    IF new_status = FAILED
    THEN [step EXCEPT !.status = new_status, !.failure_details = failure_details]
    ELSE [step EXCEPT !.status = new_status]

\* a variant that clears the failure detail on a non-FAILED status
StepManager_update_step_status_Reset(step, new_status, failure_details) ==
    IF new_status = FAILED
    THEN [step EXCEPT !.status = new_status,
                      !.failure_details = failure_details,
                      !.retry_count = @ + 1]
    ELSE [step EXCEPT !.status = new_status, !.failure_details = None]

StepManager_update_step_status(step, new_status, failure_details) ==
    IF new_status = FAILED
    THEN [step EXCEPT !.status = new_status,
                      !.failure_details = failure_details,
                      !.retry_count = @ + 1]
    ELSE [step EXCEPT !.status = new_status]

\* a variant that tests `is not None` where the code tests truthiness
ParseLine_KeepEmpty(st, raw) ==
    LET line == Strip(raw) IN
    IF line = <<>> THEN st
    ELSE IF StartsWith(line, <<"STEP:">>) THEN
        [steps |-> IF st.current_description # NoneStr /\ st.current_reasoning # NoneStr
                   THEN Append(st.steps,
                               Step(st.current_description, st.current_reasoning))
                   ELSE st.steps,
         current_description |-> Strip(DropMarker(line)),
         current_reasoning |-> NoneStr]
    ELSE IF StartsWith(line, <<"REASONING:">>) THEN
        [st EXCEPT !.current_reasoning = Strip(DropMarker(line))]
    ELSE st

\* One iteration of the parsing loop: st is (steps, current_description,
\* current_reasoning), raw is the next element of response.split('\n').
ParseLine(st, raw) ==
    LET line == Strip(raw) IN
    IF line = <<>> THEN st
    ELSE IF StartsWith(line, <<"STEP:">>) THEN
        [steps |-> IF Truthy(st.current_description) /\ Truthy(st.current_reasoning)
                   THEN Append(st.steps,
                               Step(st.current_description, st.current_reasoning))
                   ELSE st.steps,
         current_description |-> Strip(DropMarker(line)),
         current_reasoning |-> NoneStr]
    ELSE IF StartsWith(line, <<"REASONING:">>) THEN
        [st EXCEPT !.current_reasoning = Strip(DropMarker(line))]
    ELSE st

RECURSIVE ParseLoop(_, _)
ParseLoop(st, lines) ==
    IF lines = <<>> THEN st ELSE ParseLoop(ParseLine(st, Head(lines)), Tail(lines))

\* StepManager._parse_steps_from_llm_response; lines is response.split('\n')
_parse_steps_from_llm_response(lines) ==
    LET st == ParseLoop([steps |-> <<>>, current_description |-> NoneStr,
                         current_reasoning |-> NoneStr], lines)
    IN IF Truthy(st.current_description) /\ Truthy(st.current_reasoning)
       THEN Append(st.steps, Step(st.current_description, st.current_reasoning))
       ELSE st.steps

\* ------------------------------------------------------- ScratchpadManager

\* the slice bound of description.lower().replace(" ", "_")[:30]
TaskNameLen == 30

\* str.lower() on the tokens of a description
Lower(c) == IF c = "A" THEN "a" ELSE IF c = "Initial" THEN "initial" ELSE c

\* description.lower().replace(" ", "_")[:30]
TaskName(description) ==
    LET n == IF Len(description) < TaskNameLen THEN Len(description) ELSE TaskNameLen
    IN [i \in 1..n |-> IF Lower(description[i]) = " " THEN "_"
                        ELSE Lower(description[i])]

\* base_dir / f"sess_{session_id}_task_{task_name}_{task_id}.md"; uid stands
\* for the two uuid4 fragments, taken as unique within a run
generate_scratchpad_path(task_name, uid) == [name |-> task_name, uid |-> uid]

\* open(path, 'w') succeeds iff the parent directory exists: base_dir does
\* (mkdir in __init__), a directory introduced by a "/" in the name does not.
PathWritable(path) == \A i \in 1..Len(path.name) : path.name[i] # "/"

\* one line of a document: a literal prefix, a number, interpolated text
Line(kind, n, text) == [kind |-> kind, n |-> n, text |-> text]
Blank == Line("", 0, <<>>)

RECURSIVE Bullets(_)
Bullets(items) ==
    IF items = <<>> THEN <<>>
    ELSE <<Line("- ", 0, <<Head(items)>>)>> \o Bullets(Tail(items))

RECURSIVE StepLines(_, _)
StepLines(steps, i) ==
    IF i > Len(steps) THEN <<>>
    ELSE <<Line("### Step ", i, steps[i].description),
           Line("Reasoning: ", 0, steps[i].reasoning),
           Line("Status: ", 0, <<steps[i].status>>)>>
         \o (IF steps[i].failure_details # None /\ steps[i].failure_details # ""
             THEN <<Line("Failure Details: ", 0, <<steps[i].failure_details>>)>>
             ELSE <<>>)
         \o <<Blank>>
         \o StepLines(steps, i + 1)

\* ScratchpadManager._generate_markdown: the lines of "\n".join(lines), with
\* timestamp the value of datetime.now() at the call
_generate_markdown(task, timestamp) ==
    <<Line("# Task: ", 0, task.description),
      Line("Current Goal: ", 0, <<task.current_goal>>),
      Blank,
      Line("## Details", 0, <<>>)>>
    \o Bullets(task.details)
    \o <<Blank, Line("## Notes", 0, <<>>)>>
    \o Bullets(task.notes)
    \o <<Blank,
         Line("## Task History", 0, <<>>),
         Line("- [timestamp] Task initiated: ", timestamp, task.description),
         Blank,
         Line("## Steps", 0, <<>>)>>
    \o StepLines(task.steps, 1)

\* a variant that opens the file for appending
WriteFile_Append(fs, path, content) ==
    [p \in (DOMAIN fs) \cup {path} |->
        IF p = path THEN (IF path \in DOMAIN fs THEN fs[path] \o content ELSE content)
        ELSE fs[p]]

\* open(path, 'w').write(content): the file holds content and nothing else
WriteFile(fs, path, content) ==
    [p \in (DOMAIN fs) \cup {path} |-> IF p = path THEN content ELSE fs[p]]

\* ScratchpadManager.create_scratchpad
create_scratchpad(fs, task) ==
    WriteFile(fs, task.scratchpad_path, _generate_markdown(task, now))

\* ScratchpadManager.update_scratchpad
update_scratchpad(fs, task) ==
    WriteFile(fs, task.scratchpad_path, _generate_markdown(task, now))

\* -------------------------------------------------------------- LLM replies

\* what `await llm.ainvoke(...)` yields: it raises, or returns an object
\* that is not an AIMessage, or an AIMessage whose content is a list, or an
\* AIMessage whose content is the text `content`
LLMRaise == [kind |-> "raise", content |-> <<>>]
LLMOther == [kind |-> "other", content |-> <<>>]
LLMList == [kind |-> "ai_list", content |-> <<>>]
LLMText(content) == [kind |-> "ai_str", content |-> content]
NoResponse == [kind |-> "n/a", content |-> <<>>]

\* -------------------------------------------------------------- TaskMerger

FailedToParse == <<"Failed to parse LLM response">>

RECURSIVE IndexOf(_, _, _)
IndexOf(s, c, i) ==
    IF i > Len(s) THEN 0 ELSE IF s[i] = c THEN i ELSE IndexOf(s, c, i + 1)

\* str.split(sep, 1)
Split1(s, sep) ==
    LET k == IndexOf(s, sep, 1) IN
    IF k = 0 THEN <<s>> ELSE <<SubSeq(s, 1, k - 1), SubSeq(s, k + 1, Len(s))>>

Returned(can_merge, reasoning) ==
    [raised |-> None, can_merge |-> can_merge, reasoning |-> reasoning]
Raised(exc) == [raised |-> exc, can_merge |-> FALSE, reasoning |-> NoneStr]
NoEvaluation == [raised |-> "n/a", can_merge |-> FALSE, reasoning |-> NoneStr]

\* TaskMerger.can_merge_tasks, given the evaluator's reply
can_merge_tasks(reply) ==
    IF reply.kind = "raise" THEN Raised("LLMError")
    ELSE IF reply.kind = "ai_str" THEN
        LET result == Strip(reply.content)
            can_merge == StartsWith(result, <<"MERGE", ":">>)
            parts == Split1(result, ":")
        IN IF Len(parts) < 2 THEN Raised("IndexError")
           ELSE Returned(can_merge, Strip(parts[2]))
    ELSE Returned(FALSE, FailedToParse)

\* TaskMerger.merge_tasks, given the merge reply: the exception it raises
merge_tasks(reply) ==
    IF reply.kind = "raise" THEN "LLMError" ELSE "NotImplementedError"

\* ------------------------------------------------------------- TaskManager

\* self.current_task = None
NoTask == [task_id |-> 0]
IsNone(task) == task.task_id = 0

\* Optional[List[str]] None
NoneList == <<"<None>">>

\* StepManager.generate_steps, given the planner's reply (which is not "raise")
generate_steps(reply) ==
    IF reply.kind = "ai_str"
    THEN _parse_steps_from_llm_response(reply.content)
    ELSE <<>>

Outcome(raised, task, fs, drew, evaluation, asked_merger, asked_planner) ==
    [raised |-> raised, current_task |-> task, files |-> fs, drew |-> drew,
     evaluation |-> evaluation, asked_merger |-> asked_merger,
     asked_planner |-> asked_planner]

\* TaskManager.create_task: what it raises, and current_task and the files
\* when it ends
create_task(description, goal, details, planner) ==
    LET task_id == uuid_count + 1
        scratchpad_path ==
            generate_scratchpad_path(TaskName(description), task_id)
    IN IF planner.kind = "raise"
       THEN Outcome("LLMError", current_task, files, TRUE, NoEvaluation, FALSE, TRUE)
       ELSE LET task == [task_id |-> task_id,
                         description |-> description,
                         current_goal |-> goal,
                         details |-> IF details # NoneList THEN details ELSE <<>>,
                         notes |-> <<>>,
                         steps |-> generate_steps(planner),
                         scratchpad_path |-> scratchpad_path,
                         max_retries |-> max_retries]
            IN IF ~PathWritable(scratchpad_path)
               THEN Outcome("FileNotFoundError", current_task, files, TRUE,
                            NoEvaluation, FALSE, TRUE)
               ELSE Outcome(None, task, create_scratchpad(files, task), TRUE,
                            NoEvaluation, FALSE, TRUE)

\* a variant whose merge path installs a Task before it raises
add_task_InstallsMerged(description, goal, details, evaluator, merger, planner) ==
    IF IsNone(current_task)
    THEN create_task(description, goal, details, planner)
    ELSE LET evaluation == can_merge_tasks(evaluator) IN
         IF evaluation.raised # None
         THEN Outcome(evaluation.raised, current_task, files, FALSE, evaluation,
                      FALSE, FALSE)
         ELSE IF evaluation.can_merge
         THEN LET merged == [current_task EXCEPT !.description = description,
                                                 !.current_goal = goal]
              IN Outcome(merge_tasks(merger), merged,
                         create_scratchpad(files, merged), FALSE, evaluation,
                         TRUE, FALSE)
         ELSE [create_task(description, goal, details, planner)
                  EXCEPT !.evaluation = evaluation]

\* TaskManager.add_task.  The assignments after merge_tasks never run:
\* merge_tasks always raises.
add_task(description, goal, details, evaluator, merger, planner) ==
    IF IsNone(current_task)
    THEN create_task(description, goal, details, planner)
    ELSE LET evaluation == can_merge_tasks(evaluator) IN
         IF evaluation.raised # None
         THEN Outcome(evaluation.raised, current_task, files, FALSE, evaluation,
                      FALSE, FALSE)
         ELSE IF evaluation.can_merge
         THEN Outcome(merge_tasks(merger), current_task, files, FALSE, evaluation,
                      TRUE, FALSE)
         ELSE [create_task(description, goal, details, planner)
                  EXCEPT !.evaluation = evaluation]

\* list[i] for a Python index i on a list of n elements: the 1-based position
PyPos(n, i) == IF i >= 0 THEN i + 1 ELSE n + i + 1

\* a variant that clamps an index past the end instead of refusing it
update_step_status_NoBoundsCheck(step_index, new_status, failure_details) ==
    IF IsNone(current_task)
    THEN Outcome("ValueError", current_task, files, FALSE, NoEvaluation, FALSE, FALSE)
    ELSE IF step_index < 0 - Len(current_task.steps)
            \/ Len(current_task.steps) = 0
    THEN Outcome("IndexError", current_task, files, FALSE, NoEvaluation, FALSE, FALSE)
    ELSE LET n == Len(current_task.steps)
             k == IF step_index >= n THEN n ELSE PyPos(n, step_index)
             updated_step == StepManager_update_step_status(
                                 current_task.steps[k], new_status, failure_details)
             task == [current_task EXCEPT !.steps[k] = updated_step]
         IN Outcome(None, task, update_scratchpad(files, task), FALSE,
                    NoEvaluation, FALSE, FALSE)

\* a variant that gives the new status to every step of the Task
update_step_status_AllSteps(step_index, new_status, failure_details) ==
    IF IsNone(current_task) \/ step_index >= Len(current_task.steps)
    THEN Outcome("ValueError", current_task, files, FALSE, NoEvaluation, FALSE, FALSE)
    ELSE IF step_index < 0 - Len(current_task.steps)
    THEN Outcome("IndexError", current_task, files, FALSE, NoEvaluation, FALSE, FALSE)
    ELSE LET task == [current_task EXCEPT !.steps =
                         [i \in 1..Len(current_task.steps) |->
                             StepManager_update_step_status(
                                 current_task.steps[i], new_status, failure_details)]]
         IN Outcome(None, task, update_scratchpad(files, task), FALSE,
                    NoEvaluation, FALSE, FALSE)

\* a variant that leaves the snapshot file as it was
update_step_status_NoWrite(step_index, new_status, failure_details) ==
    IF IsNone(current_task) \/ step_index >= Len(current_task.steps)
    THEN Outcome("ValueError", current_task, files, FALSE, NoEvaluation, FALSE, FALSE)
    ELSE IF step_index < 0 - Len(current_task.steps)
    THEN Outcome("IndexError", current_task, files, FALSE, NoEvaluation, FALSE, FALSE)
    ELSE LET k == PyPos(Len(current_task.steps), step_index)
             updated_step == StepManager_update_step_status(
                                 current_task.steps[k], new_status, failure_details)
             task == [current_task EXCEPT !.steps[k] = updated_step]
         IN Outcome(None, task, files, FALSE, NoEvaluation, FALSE, FALSE)

\* TaskManager.update_step_status
update_step_status(step_index, new_status, failure_details) ==
    IF IsNone(current_task) \/ step_index >= Len(current_task.steps)
    THEN Outcome("ValueError", current_task, files, FALSE, NoEvaluation, FALSE, FALSE)
    ELSE IF step_index < 0 - Len(current_task.steps)
    THEN Outcome("IndexError", current_task, files, FALSE, NoEvaluation, FALSE, FALSE)
    ELSE LET k == PyPos(Len(current_task.steps), step_index)
             updated_step == StepManager_update_step_status(
                                 current_task.steps[k], new_status, failure_details)
             task == [current_task EXCEPT !.steps[k] = updated_step]
         IN Outcome(None, task, update_scratchpad(files, task), FALSE,
                    NoEvaluation, FALSE, FALSE)

\* TaskManager.get_current_task
get_current_task == current_task

\* TaskManager.get_step: the Step, NoStep for None, or StepIndexError when
\* list indexing raises IndexError
NoStep == [description |-> NoneStr]
StepIndexError == [description |-> <<"<IndexError>">>]
get_step(step_index) ==
    IF IsNone(current_task) \/ step_index >= Len(current_task.steps)
    THEN NoStep
    ELSE IF step_index < 0 - Len(current_task.steps)
    THEN StepIndexError
    ELSE current_task.steps[PyPos(Len(current_task.steps), step_index)]

\* ----------------------------------------------------------- SocketManager

\* self.agent_sid = None
NoSid == "<None>"

\* self.sessions is a dict: its entries in insertion order.  `del` leaves a
\* deleted entry behind and an insertion of a new key appends one (a dict
\* this small is never resized).
DeletedSid == "<deleted>"
Entry(sid, data, last_active) ==
    [sid |-> sid, data |-> data, last_active |-> last_active]
Deleted == Entry(DeletedSid, <<>>, 0)

\* the keys of the dict
SessionIds(d) == {d[i].sid : i \in 1..Len(d)} \ {DeletedSid}

\* len(d)
Used(d) == Cardinality(SessionIds(d))

\* the position of key sid among the entries (sid is a key of d)
EntryOf(d, sid) == CHOOSE i \in 1..Len(d) : d[i].sid = sid

\* dict.update: the fields of new override those of old
Merge(old, new) ==
    [k \in (DOMAIN old) \cup (DOMAIN new) |->
        IF k \in DOMAIN new THEN new[k] ELSE old[k]]

\* SocketManager.set_session_data: the dict afterwards
set_session_data(d, sid, data) ==
    LET d1 == IF sid \in SessionIds(d) THEN d ELSE Append(d, Entry(sid, <<>>, 0))
        i == EntryOf(d1, sid)
    IN [d1 EXCEPT ![i] = Entry(sid, Merge(d1[i].data, data), now)]

\* SocketManager.get_session_data: the record, or NoSession for None
NoSession == Entry(NoSid, <<>>, 0)
get_session_data(d, sid) ==
    IF sid \in SessionIds(d) THEN d[EntryOf(d, sid)] ELSE NoSession

\* SocketManager.remove_session: the dict and the agent slot afterwards
remove_session(d, agent, sid) ==
    IF sid \in SessionIds(d)
    THEN [sessions |-> [d EXCEPT ![EntryOf(d, sid)] = Deleted],
          agent_sid |-> IF agent = sid THEN NoSid ELSE agent]
    ELSE [sessions |-> d, agent_sid |-> agent]

\* SocketManager.set_agent_session, up to its await: the session to
\* disconnect, or NoSid when the call does not disconnect anyone
set_agent_session_evicts(agent, sid) ==
    IF agent # NoSid /\ agent # sid THEN agent ELSE NoSid

\* a variant that lets a failed disconnect leave the method
set_agent_session_ends_Propagates(sid, agent, outcome) ==
    IF outcome = "raise"
    THEN [raised |-> "Exception", agent_sid |-> agent]
    ELSE [raised |-> None, agent_sid |-> sid]

\* SocketManager.set_agent_session, from its await on: the exception that
\* leaves the method (None: it returns) and the agent slot afterwards;
\* agent is the slot when the method resumes, outcome how sio.disconnect ended
set_agent_session_ends(sid, agent, outcome) ==
    [raised |-> None, agent_sid |-> sid]

\* next() on an iterator over the dict d: it is the iterator's position,
\* the number of keys it may still yield and the len(d) it was created for
DictIter(d) == [pos |-> 0, remaining |-> Used(d), di_used |-> Used(d)]

DictIterNext(d, it) ==
    LET later == {i \in (it.pos + 1)..Len(d) : d[i].sid # DeletedSid} IN
    IF it.di_used # Used(d)
    THEN [kind |-> "raise", sid |-> NoSid, it |-> it]
    ELSE IF later = {}
    THEN [kind |-> "stop", sid |-> NoSid, it |-> it]
    ELSE IF it.remaining = 0
    THEN [kind |-> "raise", sid |-> NoSid, it |-> it]
    ELSE LET i == CHOOSE i \in later : \A j \in later : i <= j
         IN [kind |-> "item", sid |-> d[i].sid,
             it |-> [it EXCEPT !.pos = i, !.remaining = @ - 1]]

\* SocketManager.broadcast_agent_event from one suspension point to the
\* next: the loop runs on, skipping the agent-slot holder, until it awaits
\* an emit ("item"), ends ("stop") or the iterator raises ("raise")
RECURSIVE BroadcastAdvance(_, _, _)
BroadcastAdvance(d, agent, it) ==
    LET r == DictIterNext(d, it) IN
    IF r.kind = "item" /\ r.sid = agent
    THEN BroadcastAdvance(d, agent, r.it)
    ELSE r

\* a variant that returns True whatever the send did
send_to_agent_AlwaysTrue(agent, outcome) ==
    IF agent = NoSid
    THEN [result |-> FALSE, delivered |-> {}]
    ELSE [result |-> TRUE, delivered |-> IF outcome = "ok" THEN {agent} ELSE {}]

\* SocketManager.send_to_agent: what it returns and whom the event reached;
\* outcome is how sio.emit ended
send_to_agent(agent, outcome) ==
    IF agent = NoSid
    THEN [result |-> FALSE, delivered |-> {}]
    ELSE IF outcome = "ok"
    THEN [result |-> TRUE, delivered |-> {agent}]
    ELSE [result |-> FALSE, delivered |-> {}]

\* SocketManager.is_agent_connected
is_agent_connected(d, agent) == agent # NoSid /\ agent \in SessionIds(d)

\* ------------------------------------------------------------------ server

\* settings.WS_API_KEY
WS_API_KEY == <<"k">>

\* ConnectionStatus(status=..., message=...).dict()
ConnectionStatus(status, message) == [status |-> status, message |-> message]

\* what a handler sends to room=sid, in order: status events and, for
\* sio.disconnect(sid), Disconnected
Disconnected == [status |-> "<disconnect>", message |-> ""]

\* sub in s
Contains(s, sub) == \E i \in 1..Len(s) : s[i] = sub

\* str.split(sep)
RECURSIVE Split(_, _)
Split(s, sep) ==
    LET k == IndexOf(s, sep, 1) IN
    IF k = 0 THEN <<s>>
    ELSE <<SubSeq(s, 1, k - 1)>> \o Split(SubSeq(s, k + 1, Len(s)), sep)

\* [param for param in params if param.startswith('auth=')]
RECURSIVE AuthParams(_)
AuthParams(params) ==
    IF params = <<>> THEN <<>>
    ELSE IF StartsWith(Head(params), <<"auth=">>)
    THEN <<Head(params)>> \o AuthParams(Tail(params))
    ELSE AuthParams(Tail(params))

\* the ValueError raised in the try block of connect, or None
connect_error(query_string) ==
    IF ~Contains(query_string, "auth=")
    THEN "No auth parameter in query string"
    ELSE LET auth_param == AuthParams(Split(query_string, "&")) IN
         IF auth_param = <<>> THEN "No auth parameter found"
         ELSE LET auth == Split(auth_param[1], "auth=")[2] IN
              IF auth = <<>> THEN "No API key provided"
              ELSE IF auth # WS_API_KEY THEN "Invalid API key"
              ELSE None

\* the connect handler: what it sends to the connecting client
connect(query_string) ==
    LET e == connect_error(query_string) IN
    IF e = None
    THEN <<ConnectionStatus("connected", "Successfully connected")>>
    ELSE <<ConnectionStatus("error", e), Disconnected>>

\* AddTaskCommand(**data): data has a description
ValidData == [description |-> <<"b", " ", "A">>, goal |-> "g2"]
NoGoalData == [description |-> <<"b", " ", "A">>, goal |-> None]
InvalidData == [description |-> NoneStr, goal |-> None]
DefaultGoal == "Complete the new task while considering previous context"

\* a variant that takes an assigned slot for a connected agent
add_task_error_SlotOnly(data) ==
    IF data.description = NoneStr THEN "ValidationError"
    ELSE IF agent_sid = NoSid THEN "No agent is currently connected"
    ELSE IF ~agent_instance THEN "Agent instance not initialized"
    ELSE None

\* the add_task handler up to the call of agent.add_new_task: the error
\* raised before it, or None
add_task_error(data) ==
    IF data.description = NoneStr THEN "ValidationError"
    ELSE IF ~is_agent_connected(sessions, agent_sid)
    THEN "No agent is currently connected"
    ELSE IF ~agent_instance THEN "Agent instance not initialized"
    ELSE None

\* ------------------------------------------------------------------ inputs

\* the identifiers uuid4 hands out in a run, in order
TaskIds == 1..2

RequestA == [description |-> <<"A", "b">>, goal |-> "g1", details |-> <<"d1">>]
RequestB == [description |-> <<"b", " ", "A">>, goal |-> "g2", details |-> NoneList]
RequestSlash == [description |-> <<"a", "/", "b">>, goal |-> "g1", details |-> NoneList]

\* what create_task is called with, and what add_task / add_new_task is
CreateRequests == {RequestA, RequestSlash}
AddRequests == {RequestB, RequestSlash}

\* the statuses and details status updates are called with
UpdateStatuses == {IN_PROGRESS, COMPLETED, FAILED}
FailureDetails == {"timeout"}
StepIndices == -1..2

StepLineA == <<"STEP:", " ", "a">>
StepLineB == <<" ", "STEP:", "b", " ">>
ReasoningLineR == <<"REASONING:", " ", "r">>
ReasoningLineS == <<"REASONING:", "s">>

PlannerResponses ==
    {LLMRaise, LLMList,
     LLMText(<< <<"x">>, StepLineA >>),
     LLMText(<<StepLineA, ReasoningLineR>>),
     LLMText(<<StepLineA, ReasoningLineR, <<>>, StepLineB, ReasoningLineS>>)}

EvalResponses ==
    {LLMRaise, LLMOther,
     LLMText(<<"MERGE", ":", " ", "x">>),
     LLMText(<<"NO_", "MERGE", ":", " ", "x">>),
     LLMText(<<"NO_", "MERGE">>)}

MergeResponses == {LLMRaise, LLMText(<<"x">>)}

\* lines a planner reply is made of
LineSamples ==
    {<<>>, <<" ">>, <<"x">>, StepLineA, StepLineB, <<"STEP:", " ">>,
     ReasoningLineR, ReasoningLineS, <<"REASONING:">>}

\* tokens an evaluator reply is made of
ReplyTokens == {"MERGE", "NO_", ":", " ", "x"}

\* what add_task is called with while steps are being run
ExecRequests == {RequestA, RequestB}

\* the planner replies add_task meets there: an error, one step, two steps
ExecPlannerResponses ==
    {LLMRaise,
     LLMText(<<StepLineA, ReasoningLineR>>),
     LLMText(<<StepLineA, ReasoningLineR, <<>>, StepLineB, ReasoningLineS>>)}

\* how `await super().step(step_info)` ends: it raises, or it returns with
\* self._last_result None, empty, or a list of action results, each given
\* by its error (None for a result without one)
ExecutorOutcomes ==
    {[raised |-> "ExecutorError", last_result |-> NoneList]}
    \cup {[raised |-> None, last_result |-> l] :
              l \in {NoneList, <<>>, <<None>>, <<None, "e1">>}}

\* connection ids handed out by the Socket.IO server
Sids == {"s1", "s2", "s3"}

\* the connections the handlers of server.py are followed for
ServerSids == {"s1", "s2"}

\* the connection that registers as the agent in SpecAddTask
AgentSids == {"s1"}

\* the fields set_session_data is called with
SessionData == {[user |-> "u1"]}

\* how an awaited sio.emit / sio.disconnect ends
SioOutcomes == {"ok", "raise"}

\* the tokens a handshake query string is made of
QueryTokens == {"auth=", "&", "k", "x"}

\* the query strings connections arrive with
ConnectQueries == {<<"auth=", "k">>, <<"auth=", "x">>, <<"x">>}

\* the payloads add_task events arrive with
AddTaskData == {ValidData, NoGoalData, InvalidData}

\* ----------------------------------------------------------------- actions

Call(op, raised) == [op |-> op, raised |-> raised]

StepCall(applied, prior, new_status, failure_details) ==
    [applied |-> applied, prior |-> prior, new_status |-> new_status,
     failure_details |-> failure_details]

InitOrchestrator ==
    /\ current_task = NoTask
    /\ files = <<>>
    /\ uuid_count = 0
    /\ now = 0
    /\ paused = FALSE
    /\ last = Call("none", None)
    /\ failed_transitions = <<>>
    /\ n_updates = 0

InitPlannerVars ==
    /\ response = << <<>> >>
    /\ parsed_steps = <<>>

InitMergerVars ==
    /\ evaluator_reply = NoResponse
    /\ merge_decision = NoEvaluation

InitStepVars ==
    /\ step_obj = Step(<<"a">>, <<"r">>)
    /\ step_call = StepCall(FALSE, step_obj, OPEN, None)

SmCall(op, sid, raised, result, delivered, failed, evicted) ==
    [op |-> op, sid |-> sid, raised |-> raised, result |-> result,
     delivered |-> delivered, failed |-> failed, evicted |-> evicted]

NoSetAgentCall == [pc |-> "idle", sid |-> NoSid, target |-> NoSid]
NoBroadcastCall ==
    [pc |-> "idle", it |-> DictIter(<<>>), to |-> NoSid, delivered |-> {},
     failed |-> {}]

\* SocketManager.__init__
InitSessionVars ==
    /\ sessions = <<>>
    /\ agent_sid = NoSid
    /\ set_agent_call = NoSetAgentCall
    /\ broadcast_call = NoBroadcastCall
    /\ sm_last = SmCall("none", NoSid, None, "None", {}, {}, NoSid)

HandlerRun(op, sid, sent, carried) ==
    [op |-> op, sid |-> sid, sent |-> sent, carried |-> carried]

\* the module-level state of server.py after import
InitServerVars ==
    /\ live = {}
    /\ agent_instance = FALSE
    /\ handler_last = HandlerRun("none", NoSid, <<>>, FALSE)

InitConnectVars ==
    /\ query = <<>>
    /\ connect_out = connect(query)

NoAddCall ==
    [pc |-> "idle", task_id |-> 0, description |-> NoneStr, goal |-> None,
     evaluator |-> NoResponse, updates |-> 0]
NoStepRun == [pc |-> "idle", index |-> 0, task_id |-> 0, step |-> NoStep]
StepReturn(returned, selected, task_id, step, last_result) ==
    [returned |-> returned, selected |-> selected, task_id |-> task_id,
     step |-> step, last_result |-> last_result]
NoHistory == [base |-> NoTask, updates |-> <<>>, snapshots |-> <<>>]

\* no add_task and no step in flight, none ended
InitRunVars ==
    /\ add_call = NoAddCall
    /\ step_run = NoStepRun
    /\ step_last = StepReturn("none", FALSE, 0, NoStep, NoneList)
    /\ history = NoHistory
    /\ calls = <<>>

InitExt == InitSessionVars /\ InitServerVars /\ InitConnectVars /\ InitRunVars

\* the state after TaskManager and EnhancedAgent are constructed
Init ==
    InitOrchestrator /\ InitPlannerVars /\ InitMergerVars /\ InitStepVars
    /\ InitExt

Installed(r) ==
    /\ current_task' = r.current_task
    /\ files' = r.files
    /\ uuid_count' = IF r.drew THEN uuid_count + 1 ELSE uuid_count
    /\ failed_transitions' =
           IF r.drew /\ r.raised = None
           THEN [i \in 1..Len(r.current_task.steps) |-> 0]
           ELSE failed_transitions

\* a TaskManager.create_task call (EnhancedAgent._initialize_task makes one)
CreateTask(description, goal, details, planner) ==
    LET r == create_task(description, goal, details, planner) IN
    /\ uuid_count + 1 \in TaskIds
    /\ Installed(r)
    /\ last' = Call("create_task", r.raised)
    /\ UNCHANGED <<now, paused, n_updates, planner_vars, merger_vars, step_vars, ext_vars>>

\* a reply is NoResponse exactly when add_task does not make that LLM call
Consulted(r, evaluator, merger, planner) ==
    /\ (evaluator = NoResponse) = IsNone(current_task)
    /\ (merger = NoResponse) = ~r.asked_merger
    /\ (planner = NoResponse) = ~r.asked_planner

\* a TaskManager.add_task call
AddTask(description, goal, details, evaluator, merger, planner) ==
    LET r == add_task(description, goal, details, evaluator, merger, planner) IN
    /\ Consulted(r, evaluator, merger, planner)
    /\ r.drew => uuid_count + 1 \in TaskIds
    /\ Installed(r)
    /\ last' = Call("add_task", r.raised)
    /\ UNCHANGED <<now, paused, n_updates, planner_vars, merger_vars, step_vars, ext_vars>>

\* EnhancedAgent.add_new_task: self.pause(), add_task, (message manager),
\* self.resume().  paused holds while a pause() call has not been followed
\* by a resume() call; an exception of add_task leaves the method before
\* resume() is called.
AddNewTaskRuns(new_task, goal, evaluator, merger, planner) ==
    LET r == add_task(new_task, goal, NoneList, evaluator, merger, planner) IN
    /\ Consulted(r, evaluator, merger, planner)
    /\ r.drew => uuid_count + 1 \in TaskIds
    /\ Installed(r)
    /\ paused' = (r.raised # None)
    /\ last' = Call("add_new_task", r.raised)
    /\ UNCHANGED <<now, n_updates>>

\* an EnhancedAgent.add_new_task call
AddNewTask(new_task, goal, evaluator, merger, planner) ==
    /\ AddNewTaskRuns(new_task, goal, evaluator, merger, planner)
    /\ UNCHANGED <<planner_vars, merger_vars, step_vars, ext_vars>>

\* TaskManager.update_step_status runs: it has no await, so it runs whole
UpdateStepStatusRuns(step_index, new_status, failure_details) ==
    LET r == update_step_status(step_index, new_status, failure_details) IN
    /\ r.raised = None => n_updates < MaxUpdates
    /\ current_task' = r.current_task
    /\ files' = r.files
    /\ n_updates' = IF r.raised = None THEN n_updates + 1 ELSE n_updates
    /\ failed_transitions' =
           IF r.raised = None /\ new_status = FAILED
           THEN [failed_transitions EXCEPT
                    ![PyPos(Len(current_task.steps), step_index)] = @ + 1]
           ELSE failed_transitions
    /\ last' = Call("update_step_status", r.raised)
    /\ UNCHANGED <<uuid_count, now, paused>>

\* a TaskManager.update_step_status call
UpdateStepStatus(step_index, new_status, failure_details) ==
    /\ UpdateStepStatusRuns(step_index, new_status, failure_details)
    /\ UNCHANGED <<planner_vars, merger_vars, step_vars, ext_vars>>

\* the LLM replies an add_task call can meet in the current state
AddTaskReplies ==
    IF IsNone(current_task)
    THEN {<<NoResponse, NoResponse, planner>> : planner \in PlannerResponses}
    ELSE UNION {
        LET decision == can_merge_tasks(evaluator) IN
        IF decision.raised # None THEN {<<evaluator, NoResponse, NoResponse>>}
        ELSE IF decision.can_merge
        THEN {<<evaluator, merger, NoResponse>> : merger \in MergeResponses}
        ELSE {<<evaluator, NoResponse, planner>> : planner \in PlannerResponses}
        : evaluator \in EvalResponses}

Next ==
    \/ \E request \in CreateRequests, planner \in PlannerResponses :
            CreateTask(request.description, request.goal, request.details, planner)
    \/ \E request \in AddRequests, replies \in AddTaskReplies :
            AddTask(request.description, request.goal, request.details,
                    replies[1], replies[2], replies[3])
    \/ \E step_index \in StepIndices, new_status \in UpdateStatuses,
          failure_details \in FailureDetails :
            UpdateStepStatus(step_index, new_status, failure_details)

Spec == Init /\ [][Next]_vars

\* ---- EnhancedAgent: the initial task and add_new_task

\* EnhancedAgent._initialize_task(task_description)
InitializeTask(task_description, planner) ==
    CreateTask(task_description, "Complete the given task successfully", <<>>,
               planner)

NextAgent ==
    \/ \E request \in CreateRequests, planner \in PlannerResponses :
            InitializeTask(request.description, planner)
    \/ \E request \in AddRequests, replies \in AddTaskReplies :
            AddNewTask(request.description, request.goal,
                       replies[1], replies[2], replies[3])

SpecAgent == Init /\ [][NextAgent]_vars

\* ---- StepManager.update_step_status on one Step object

StepUpdate(new_status, failure_details) ==
    /\ new_status = FAILED => step_obj.retry_count < MaxRetryCount
    /\ step_obj' = StepManager_update_step_status(step_obj, new_status, failure_details)
    /\ step_call' = StepCall(TRUE, step_obj, new_status, failure_details)
    /\ UNCHANGED <<orchestrator_vars, planner_vars, merger_vars, ext_vars>>

NextStep ==
    \E new_status \in StepStatus, failure_details \in {None, "timeout", "crash"} :
        StepUpdate(new_status, failure_details)

SpecStep == Init /\ [][NextStep]_vars

\* ---- the planner-reply parser on its own: a reply grows line by line

InitPlanner ==
    /\ InitOrchestrator /\ InitMergerVars /\ InitStepVars /\ InitExt
    /\ \E line \in LineSamples : response = <<line>>
    /\ parsed_steps = _parse_steps_from_llm_response(response)

PlannerReplyLine(line) ==
    /\ Len(response) < MaxLines
    /\ response' = Append(response, line)
    /\ parsed_steps' = _parse_steps_from_llm_response(response')
    /\ UNCHANGED <<orchestrator_vars, merger_vars, step_vars, ext_vars>>

NextPlanner == \E line \in LineSamples : PlannerReplyLine(line)

SpecPlanner == InitPlanner /\ [][NextPlanner]_vars

\* ---- the evaluator-reply parser on its own: a reply grows token by token

InitMerger ==
    /\ InitOrchestrator /\ InitPlannerVars /\ InitStepVars /\ InitExt
    /\ evaluator_reply = NoResponse
    /\ merge_decision = NoEvaluation

EvaluatorReplies(reply) ==
    /\ evaluator_reply = NoResponse
    /\ evaluator_reply' = reply
    /\ merge_decision' = can_merge_tasks(evaluator_reply')
    /\ UNCHANGED <<orchestrator_vars, planner_vars, step_vars, ext_vars>>

EvaluatorReplyToken(token) ==
    /\ evaluator_reply.kind = "ai_str"
    /\ Len(evaluator_reply.content) < MaxReplyLen
    /\ evaluator_reply' = LLMText(Append(evaluator_reply.content, token))
    /\ merge_decision' = can_merge_tasks(evaluator_reply')
    /\ UNCHANGED <<orchestrator_vars, planner_vars, step_vars, ext_vars>>

NextMerger ==
    \/ \E token \in ReplyTokens : EvaluatorReplyToken(token)
    \/ \E reply \in {LLMRaise, LLMOther, LLMList, LLMText(<<>>)} :
            EvaluatorReplies(reply)

SpecMerger == InitMerger /\ [][NextMerger]_vars

\* ---- SocketManager: calls interleave at their awaits

task_vars == <<orchestrator_vars, planner_vars, merger_vars, step_vars>>

\* a SocketManager.set_session_data call (it has no await)
SetSessionData(sid, data) ==
    /\ sid \notin SessionIds(sessions) => Len(sessions) < MaxEntries
    /\ sessions' = set_session_data(sessions, sid, data)
    /\ sm_last' = SmCall("set_session_data", sid, None, "None", {}, {}, NoSid)
    /\ UNCHANGED <<agent_sid, set_agent_call, broadcast_call, task_vars, server_vars, connect_vars, run_vars>>

\* a SocketManager.remove_session call (it has no await)
RemoveSession(sid) ==
    LET r == remove_session(sessions, agent_sid, sid) IN
    /\ sessions' = r.sessions
    /\ agent_sid' = r.agent_sid
    /\ sm_last' = SmCall("remove_session", sid, None, "None", {}, {}, NoSid)
    /\ UNCHANGED <<set_agent_call, broadcast_call, task_vars, server_vars, connect_vars, run_vars>>

\* a SocketManager.set_agent_session call, up to its await or, when nobody
\* is to be disconnected, to its end
SetAgentSession(sid) ==
    LET target == set_agent_session_evicts(agent_sid, sid) IN
    /\ set_agent_call.pc = "idle"
    /\ IF target # NoSid
       THEN /\ set_agent_call' = [pc |-> "disconnect", sid |-> sid, target |-> target]
            /\ UNCHANGED <<agent_sid, sm_last>>
       ELSE /\ agent_sid' = sid
            /\ sm_last' = SmCall("set_agent_session", sid, None, "None", {}, {}, NoSid)
            /\ UNCHANGED set_agent_call
    /\ UNCHANGED <<sessions, broadcast_call, task_vars, server_vars, connect_vars, run_vars>>

\* sio.disconnect(target) ends and set_agent_session runs to its end.  A
\* disconnect that succeeds has closed the connection and run the server's
\* disconnect handler, which calls remove_session(target).
SetAgentSessionResumes(outcome) ==
    LET c == set_agent_call
        handled == IF outcome = "ok"
                   THEN remove_session(sessions, agent_sid, c.target)
                   ELSE [sessions |-> sessions, agent_sid |-> agent_sid]
        r == set_agent_session_ends(c.sid, handled.agent_sid, outcome)
    IN /\ c.pc = "disconnect"
       /\ sessions' = handled.sessions
       /\ agent_sid' = r.agent_sid
       /\ set_agent_call' = NoSetAgentCall
       /\ sm_last' = SmCall("set_agent_session", c.sid, r.raised, outcome, {}, {},
                            c.target)
       /\ live' = IF outcome = "ok" THEN live \ {c.target} ELSE live
       /\ UNCHANGED <<broadcast_call, task_vars, agent_instance, handler_last,
                      connect_vars, run_vars>>

\* broadcast_agent_event runs from a suspension point (or its start) to the
\* next one, or to its end
BroadcastRuns(it, delivered, failed) ==
    LET r == BroadcastAdvance(sessions, agent_sid, it) IN
    IF r.kind = "item"
    THEN /\ broadcast_call' = [pc |-> "emit", it |-> r.it, to |-> r.sid,
                               delivered |-> delivered, failed |-> failed]
         /\ UNCHANGED sm_last
    ELSE /\ broadcast_call' = NoBroadcastCall
         /\ sm_last' = SmCall("broadcast_agent_event", NoSid,
                              IF r.kind = "raise" THEN "RuntimeError" ELSE None,
                              "None", delivered, failed, NoSid)

\* a SocketManager.broadcast_agent_event call starts
BroadcastAgentEvent ==
    /\ broadcast_call.pc = "idle"
    /\ BroadcastRuns(DictIter(sessions), {}, {})
    /\ UNCHANGED <<sessions, agent_sid, set_agent_call, task_vars, server_vars, connect_vars, run_vars>>

\* sio.emit(event, data, room=to) ends and the broadcast goes on
BroadcastResumes(outcome) ==
    LET c == broadcast_call IN
    /\ c.pc = "emit"
    /\ BroadcastRuns(c.it,
                     IF outcome = "ok" THEN c.delivered \cup {c.to} ELSE c.delivered,
                     IF outcome = "ok" THEN c.failed ELSE c.failed \cup {c.to})
    /\ UNCHANGED <<sessions, agent_sid, set_agent_call, task_vars, server_vars, connect_vars, run_vars>>

\* a SocketManager.send_to_agent call; nothing follows its await but the
\* return
SendToAgent(outcome) ==
    LET r == send_to_agent(agent_sid, outcome) IN
    /\ sm_last' = SmCall("send_to_agent", agent_sid, None,
                         IF r.result THEN "True" ELSE "False", r.delivered,
                         IF agent_sid # NoSid /\ outcome = "raise"
                         THEN {agent_sid} ELSE {}, NoSid)
    /\ UNCHANGED <<sessions, agent_sid, set_agent_call, broadcast_call, task_vars, server_vars, connect_vars, run_vars>>

NextSessions ==
    \/ \E sid \in Sids, data \in SessionData : SetSessionData(sid, data)
    \/ \E sid \in Sids : RemoveSession(sid)
    \/ \E sid \in Sids : SetAgentSession(sid)
    \/ \E outcome \in SioOutcomes : SetAgentSessionResumes(outcome)
    \/ BroadcastAgentEvent
    \/ \E outcome \in SioOutcomes : BroadcastResumes(outcome)
    \/ \E outcome \in SioOutcomes : SendToAgent(outcome)

SpecSessions == Init /\ [][NextSessions]_vars

\* the calls that read or write the agent slot, with no broadcast under way
NextAgentSlot ==
    \/ \E sid \in Sids, data \in SessionData : SetSessionData(sid, data)
    \/ \E sid \in Sids : RemoveSession(sid)
    \/ \E sid \in Sids : SetAgentSession(sid)
    \/ \E outcome \in SioOutcomes : SetAgentSessionResumes(outcome)
    \/ \E outcome \in SioOutcomes : SendToAgent(outcome)

SpecAgentSlot == Init /\ [][NextAgentSlot]_vars

\* ---- server.py: the Socket.IO handlers and the REST initialisation

\* the connect handler runs for a new connection
Connect(sid, query_string) ==
    LET sent == connect(query_string)
        admitted == sent[Len(sent)] # Disconnected
        handled == IF admitted
                   THEN [sessions |-> sessions, agent_sid |-> agent_sid]
                   ELSE remove_session(sessions, agent_sid, sid)
    IN /\ sid \notin live
       /\ live' = IF admitted THEN live \cup {sid} ELSE live
       /\ sessions' = handled.sessions
       /\ agent_sid' = handled.agent_sid
       /\ handler_last' = HandlerRun("connect", sid, sent, FALSE)
       /\ UNCHANGED <<set_agent_call, broadcast_call, sm_last, agent_instance,
                      task_vars, connect_vars, run_vars>>

\* a client goes away and the disconnect handler runs
Disconnect(sid) ==
    LET r == remove_session(sessions, agent_sid, sid) IN
    /\ sid \in live
    /\ live' = live \ {sid}
    /\ sessions' = r.sessions
    /\ agent_sid' = r.agent_sid
    /\ handler_last' = HandlerRun("disconnect", sid, <<>>, FALSE)
    /\ UNCHANGED <<set_agent_call, broadcast_call, sm_last, agent_instance,
                   task_vars, connect_vars, run_vars>>

\* POST /initialize: server.agent becomes a new EnhancedAgent, whose
\* TaskManager has no current task yet
InitializeAgent ==
    /\ ~agent_instance
    /\ agent_instance' = TRUE
    /\ current_task' = NoTask
    /\ paused' = FALSE
    /\ failed_transitions' = <<>>
    /\ last' = Call("initialize_agent", None)
    /\ UNCHANGED <<files, uuid_count, now, n_updates, planner_vars, merger_vars,
                   step_vars, session_vars, live, handler_last, connect_vars, run_vars>>

\* the task EnhancedAgent.__init__ scheduled runs: _initialize_task(task)
InitialTaskRuns(planner) ==
    /\ agent_instance
    /\ last = Call("initialize_agent", None)
    /\ InitializeTask(<<"Initial", " ", "task">>, planner)

\* the add_task handler runs for an event of a connected client
AddTaskHandler(sid, data, evaluator, merger, planner) ==
    LET e == add_task_error(data) IN
    /\ sid \in live
    /\ IF e # None
       THEN /\ evaluator = NoResponse /\ merger = NoResponse /\ planner = NoResponse
            /\ handler_last' =
                   HandlerRun("add_task", sid, <<ConnectionStatus("error", e)>>, FALSE)
            /\ UNCHANGED orchestrator_vars
       ELSE /\ AddNewTaskRuns(data.description,
                              IF data.goal # None /\ data.goal # ""
                              THEN data.goal ELSE DefaultGoal,
                              evaluator, merger, planner)
            /\ handler_last' =
                   HandlerRun("add_task", sid,
                              <<IF last'.raised = None
                                THEN ConnectionStatus("success", "Task added successfully")
                                ELSE ConnectionStatus("error", last'.raised)>>,
                              TRUE)
    /\ UNCHANGED <<planner_vars, merger_vars, step_vars, session_vars, live,
                   agent_instance, connect_vars, run_vars>>

\* the LLM replies an add_task event can meet in the current state
HandlerReplies(data) ==
    IF add_task_error(data) # None
    THEN {<<NoResponse, NoResponse, NoResponse>>}
    ELSE {replies \in AddTaskReplies :
              replies[3] \in {NoResponse, LLMRaise, LLMText(<<StepLineA, ReasoningLineR>>)}}

\* connections come and go while session records are kept and the agent
\* role is handed around
NextServer ==
    \/ \E sid \in ServerSids, query_string \in ConnectQueries : Connect(sid, query_string)
    \/ \E sid \in ServerSids : Disconnect(sid)
    \/ \E sid \in live, data \in SessionData : SetSessionData(sid, data)
    \/ \E sid \in live : SetAgentSession(sid)
    \/ \E outcome \in SioOutcomes : SetAgentSessionResumes(outcome)

SpecServer == Init /\ [][NextServer]_vars

\* add_task events arrive while one connection may register as the agent
NextAddTask ==
    \/ \E sid \in ServerSids, query_string \in ConnectQueries : Connect(sid, query_string)
    \/ \E sid \in ServerSids : Disconnect(sid)
    \/ \E sid \in live \cap AgentSids, data \in SessionData : SetSessionData(sid, data)
    \/ \E sid \in live \cap AgentSids : SetAgentSession(sid)
    \/ InitializeAgent
    \/ \E planner \in PlannerResponses : InitialTaskRuns(planner)
    \/ \E sid \in ServerSids, data \in AddTaskData :
          \E replies \in HandlerReplies(data) :
              AddTaskHandler(sid, data, replies[1], replies[2], replies[3])

SpecAddTask == Init /\ [][NextAddTask]_vars

\* ---- the connect handler on its own: a query string grows token by token

QueryToken(token) ==
    /\ Len(query) < MaxQueryLen
    /\ query' = Append(query, token)
    /\ connect_out' = connect(query')
    /\ UNCHANGED <<task_vars, session_vars, server_vars, run_vars>>

NextConnect == \E token \in QueryTokens : QueryToken(token)

SpecConnect == Init /\ [][NextConnect]_vars

\* ---- TaskManager.add_task and EnhancedAgent.step as coroutines on one
\* event loop: each runs until it awaits an LLM call or the executor

\* an update_step_status call made by EnhancedAgent.step has ended with r
StepStatusUpdated(r, step_index, new_status) ==
    /\ r.raised = None => n_updates < MaxUpdates
    /\ current_task' = r.current_task
    /\ files' = r.files
    /\ n_updates' = IF r.raised = None THEN n_updates + 1 ELSE n_updates
    /\ failed_transitions' =
           IF r.raised = None /\ new_status = FAILED
           THEN [failed_transitions EXCEPT
                    ![PyPos(Len(current_task.steps), step_index)] = @ + 1]
           ELSE failed_transitions
    /\ add_call' =
           IF r.raised = None /\ add_call.pc # "idle"
              /\ add_call.task_id = current_task.task_id
           THEN [add_call EXCEPT !.updates = @ + 1]
           ELSE add_call

\* add_task is called; it runs up to its first LLM call
AddTaskBegins(description, goal) ==
    /\ add_call.pc = "idle"
    /\ uuid_count + 1 \in TaskIds
    /\ add_call' = [pc |-> IF IsNone(current_task) THEN "planning" ELSE "evaluating",
                    task_id |-> current_task.task_id,
                    description |-> description, goal |-> goal,
                    evaluator |-> NoResponse, updates |-> 0]
    /\ UNCHANGED <<orchestrator_vars, planner_vars, merger_vars, step_vars,
                   session_vars, server_vars, connect_vars, step_run, step_last,
                   history, calls>>

\* can_merge_tasks ends
AddTaskEvaluated(evaluator) ==
    LET evaluation == can_merge_tasks(evaluator) IN
    /\ add_call.pc = "evaluating"
    /\ IF evaluation.raised # None
       THEN /\ add_call' = NoAddCall
            /\ last' = Call("add_task", evaluation.raised)
       ELSE /\ add_call' = [add_call EXCEPT
                               !.pc = IF evaluation.can_merge THEN "merging"
                                      ELSE "planning",
                               !.evaluator = evaluator]
            /\ last' = last
    /\ UNCHANGED <<current_task, files, uuid_count, now, paused,
                   failed_transitions, n_updates, planner_vars, merger_vars,
                   step_vars, session_vars, server_vars, connect_vars, step_run,
                   step_last, history, calls>>

\* merge_tasks ends: it raises
AddTaskMerged(merger) ==
    /\ add_call.pc = "merging"
    /\ add_call' = NoAddCall
    /\ last' = Call("add_task", merge_tasks(merger))
    /\ UNCHANGED <<current_task, files, uuid_count, now, paused,
                   failed_transitions, n_updates, planner_vars, merger_vars,
                   step_vars, session_vars, server_vars, connect_vars, step_run,
                   step_last, history, calls>>

\* generate_steps ends and create_task runs to its end
AddTaskPlanned(planner) ==
    LET r == create_task(add_call.description, add_call.goal, NoneList, planner) IN
    /\ add_call.pc = "planning"
    /\ Installed(r)
    /\ add_call' = NoAddCall
    /\ last' = Call("add_task", r.raised)
    /\ UNCHANGED <<now, paused, n_updates, planner_vars, merger_vars, step_vars,
                   session_vars, server_vars, connect_vars, step_run, step_last,
                   history, calls>>

\* a variant that passes over failed steps
Selectable_OpenOnly(task) ==
    {i \in 1..Len(task.steps) : task.steps[i].status = OPEN}

\* the steps step() may select: those OPEN or FAILED
Selectable(task) ==
    {i \in 1..Len(task.steps) : task.steps[i].status \in {OPEN, FAILED}}

\* bool(self._last_result)
HasResults(last_result) == last_result # NoneList /\ Len(last_result) > 0

\* next((r.error for r in self._last_result if r.error), None)
FirstError(last_result) ==
    LET errors == {i \in 1..Len(last_result) :
                       last_result[i] # None /\ last_result[i] # ""}
    IN IF errors = {} THEN None
       ELSE last_result[CHOOSE i \in errors : \A j \in errors : i <= j]

\* step() is called; it runs up to `await super().step(step_info)`
StepBegins ==
    LET task == get_current_task IN
    /\ step_run.pc = "idle"
    /\ IF IsNone(task) \/ Selectable(task) = {}
       THEN /\ step_last' = StepReturn("normal", FALSE, task.task_id, NoStep, NoneList)
            /\ UNCHANGED <<orchestrator_vars, add_call, step_run>>
       ELSE LET current_step_index ==
                    (CHOOSE i \in Selectable(task) :
                         \A j \in Selectable(task) : i <= j) - 1
                r == update_step_status(current_step_index, IN_PROGRESS, None)
            IN /\ StepStatusUpdated(r, current_step_index, IN_PROGRESS)
               /\ last' = Call("update_step_status", r.raised)
               /\ step_run' = [pc |-> "executing", index |-> current_step_index,
                               task_id |-> task.task_id,
                               step |-> r.current_task.steps[current_step_index + 1]]
               /\ UNCHANGED <<uuid_count, now, paused, step_last>>
    /\ UNCHANGED <<planner_vars, merger_vars, step_vars, session_vars,
                   server_vars, connect_vars, history, calls>>

\* the executor's step ends, raising or leaving self._last_result, and step()
\* runs to its end
StepEnds(raised, last_result) ==
    LET updates == raised # None \/ HasResults(last_result)
        new_status == IF raised # None \/ FirstError(last_result) # None
                      THEN FAILED ELSE COMPLETED
        failure_details == IF raised # None THEN raised
                           ELSE FirstError(last_result)
        r == update_step_status(step_run.index, new_status, failure_details)
        after == IF updates THEN r.current_task ELSE current_task
    IN /\ step_run.pc = "executing"
       /\ raised # None => last_result = NoneList
       /\ IF updates
          THEN /\ StepStatusUpdated(r, step_run.index, new_status)
               /\ last' = Call("update_step_status", r.raised)
          ELSE UNCHANGED <<current_task, files, n_updates, failed_transitions,
                           add_call, last>>
       /\ step_last' =
              StepReturn(IF raised # None \/ (updates /\ r.raised # None)
                         THEN "raised" ELSE "normal",
                         TRUE, step_run.task_id,
                         IF after.task_id = step_run.task_id
                         THEN after.steps[step_run.index + 1]
                         ELSE step_run.step,
                         last_result)
       /\ step_run' = NoStepRun
       /\ UNCHANGED <<uuid_count, now, paused, planner_vars, merger_vars,
                      step_vars, session_vars, server_vars, connect_vars, history, calls>>

NextExec ==
    \/ \E request \in ExecRequests : AddTaskBegins(request.description, request.goal)
    \/ \E evaluator \in EvalResponses : AddTaskEvaluated(evaluator)
    \/ \E merger \in MergeResponses : AddTaskMerged(merger)
    \/ \E planner \in ExecPlannerResponses : AddTaskPlanned(planner)
    \/ StepBegins
    \/ \E outcome \in ExecutorOutcomes : StepEnds(outcome.raised, outcome.last_result)

SpecExec == Init /\ [][NextExec]_vars

\* ---- the status updates of one Task, with what each left on disk

StatusUpdate(step_index, new_status, failure_details) ==
    [step_index |-> step_index, new_status |-> new_status,
     failure_details |-> failure_details]

\* an update_step_status call; when it returns normally, the call and the
\* snapshot file as it is at the return are appended to the Task's history
UpdateStepStatusRecorded(step_index, new_status, failure_details) ==
    LET r == update_step_status(step_index, new_status, failure_details)
        h == IF history.base.task_id = current_task.task_id THEN history
             ELSE [base |-> current_task, updates |-> <<>>, snapshots |-> <<>>]
    IN /\ UpdateStepStatusRuns(step_index, new_status, failure_details)
       /\ history' =
              IF r.raised # None THEN history
              ELSE [h EXCEPT
                      !.updates = Append(@, StatusUpdate(step_index, new_status,
                                                         failure_details)),
                      !.snapshots = Append(@, files'[current_task.scratchpad_path])]
       /\ UNCHANGED <<planner_vars, merger_vars, step_vars, session_vars,
                      server_vars, connect_vars, exec_vars, calls>>

NextUpdates ==
    \/ \E request \in CreateRequests, planner \in PlannerResponses :
            CreateTask(request.description, request.goal, request.details, planner)
    \/ \E step_index \in StepIndices, new_status \in UpdateStatuses,
          failure_details \in FailureDetails :
            UpdateStepStatusRecorded(step_index, new_status, failure_details)

SpecUpdates == Init /\ [][NextUpdates]_vars

\* ---- create_task and update_step_status while the clock advances

\* time passes: datetime.now() reads one more
Tick ==
    /\ now < MaxNow
    /\ now' = now + 1
    /\ UNCHANGED <<current_task, files, uuid_count, paused, last,
                   failed_transitions, n_updates, planner_vars, merger_vars,
                   step_vars, ext_vars>>

NextClock ==
    \/ \E planner \in ExecPlannerResponses :
            CreateTask(RequestA.description, RequestA.goal, RequestA.details, planner)
    \/ \E step_index \in {0, 1}, new_status \in UpdateStatuses,
          failure_details \in FailureDetails :
            UpdateStepStatus(step_index, new_status, failure_details)
    \/ Tick

SpecClock == Init /\ [][NextClock]_vars

\* ---- create_task calls that overlap at the planner's await

\* create_task from `await self.step_manager.generate_steps` to its end, for
\* a call that drew task_id and scratchpad_path before the await
create_task_resumed(task_id, scratchpad_path, description, goal, details, planner) ==
    IF planner.kind = "raise"
    THEN [raised |-> "LLMError", current_task |-> current_task, files |-> files]
    ELSE LET task == [task_id |-> task_id,
                      description |-> description,
                      current_goal |-> goal,
                      details |-> IF details # NoneList THEN details ELSE <<>>,
                      notes |-> <<>>,
                      steps |-> generate_steps(planner),
                      scratchpad_path |-> scratchpad_path,
                      max_retries |-> max_retries]
         IN IF ~PathWritable(scratchpad_path)
            THEN [raised |-> "FileNotFoundError", current_task |-> current_task,
                  files |-> files]
            ELSE [raised |-> None, current_task |-> task,
                  files |-> create_scratchpad(files, task)]

\* create_task is called (by _initialize_task, or by add_task for
\* add_new_task); it draws its identifiers and awaits the planner
CreateTaskBegins(request) ==
    /\ Len(calls) < MaxCalls
    /\ uuid_count' = uuid_count + 1
    /\ calls' = Append(calls, [pc |-> "planning", task_id |-> uuid_count + 1,
                               request |-> request, returned |-> "none"])
    /\ UNCHANGED <<current_task, files, now, paused, last, failed_transitions,
                   n_updates, planner_vars, merger_vars, step_vars,
                   session_vars, server_vars, connect_vars, exec_vars, history>>

\* the planner replies to the k-th call, which runs to its end
CreateTaskEnds(k, planner) ==
    /\ k \in 1..Len(calls)
    /\ calls[k].pc = "planning"
    /\ LET call == calls[k]
           r == create_task_resumed(
                    call.task_id,
                    generate_scratchpad_path(TaskName(call.request.description),
                                             call.task_id),
                    call.request.description, call.request.goal,
                    call.request.details, planner)
       IN /\ current_task' = r.current_task
          /\ files' = r.files
          /\ failed_transitions' =
                 IF r.raised = None
                 THEN [i \in 1..Len(r.current_task.steps) |-> 0]
                 ELSE failed_transitions
          /\ last' = Call("create_task", r.raised)
          /\ calls' = [calls EXCEPT ![k].pc = "ended",
                                    ![k].returned = IF r.raised = None THEN "normal"
                                                    ELSE "raised"]
    /\ UNCHANGED <<uuid_count, now, paused, n_updates, planner_vars, merger_vars,
                   step_vars, session_vars, server_vars, connect_vars, exec_vars,
                   history>>

NextOverlap ==
    \/ \E request \in ExecRequests : CreateTaskBegins(request)
    \/ \E k \in 1..MaxCalls, planner \in ExecPlannerResponses :
            CreateTaskEnds(k, planner)

SpecOverlap == Init /\ [][NextOverlap]_vars

\* ================================================================== claims

\* ---- observation functions

\* re-reading a snapshot's step section: the (description, status) pair of
\* each "### Step n:" block, the status being that of the block's first
\* "Status:" line
RECURSIVE StatusAfter(_, _)
StatusAfter(doc, i) ==
    IF i > Len(doc) \/ doc[i].kind = "### Step " THEN <<>>
    ELSE IF doc[i].kind = "Status: " THEN doc[i].text
    ELSE StatusAfter(doc, i + 1)

RECURSIVE ReadStepsFrom(_, _)
ReadStepsFrom(doc, i) ==
    IF i > Len(doc) THEN <<>>
    ELSE IF doc[i].kind = "### Step "
    THEN << <<doc[i].text, StatusAfter(doc, i + 1)>> >> \o ReadStepsFrom(doc, i + 1)
    ELSE ReadStepsFrom(doc, i + 1)

RECURSIVE SectionStart(_, _)
SectionStart(doc, i) ==
    IF i > Len(doc) THEN i
    ELSE IF doc[i].kind = "## Steps" THEN i + 1
    ELSE SectionStart(doc, i + 1)

ReadSteps(doc) == ReadStepsFrom(doc, SectionStart(doc, 1))

StepPairs(task) ==
    [i \in 1..Len(task.steps) |->
        <<task.steps[i].description, <<task.steps[i].status>> >>]

AllOpenNoRetry(task) ==
    \A i \in 1..Len(task.steps) :
        /\ task.steps[i].status = OPEN
        /\ task.steps[i].retry_count = 0
        /\ task.steps[i].failure_details = None

\* ---- C1

\* C1: update_step_status called with no current Task, or with an index >=
\* the step count, raises the invalid-step-index error (ValueError) and
\* leaves the current Task and every file as they were.
C1_InvalidIndexRaisesAndChangesNothing ==
    [][\A step_index \in StepIndices, new_status \in UpdateStatuses,
          failure_details \in FailureDetails :
          ( /\ IsNone(current_task) \/ step_index >= Len(current_task.steps)
            /\ UpdateStepStatus(step_index, new_status, failure_details) )
          => /\ last' = Call("update_step_status", "ValueError")
             /\ current_task' = current_task
             /\ files' = files]_vars

\* a Task with recorded progress has just refused an out-of-range index
C1_Witness ==
    /\ last = Call("update_step_status", "ValueError")
    /\ ~IsNone(current_task)
    /\ Len(current_task.steps) = 2
    /\ n_updates > 0

\* ---- C2

\* C2: StepManager.update_step_status sets status to newStatus; on FAILED it
\* stores the supplied detail and adds 1 to retry_count; on any other status
\* it leaves failure_details and retry_count as they were.
C2_StepTransition ==
    step_call.applied =>
        /\ step_obj.status = step_call.new_status
        /\ step_call.new_status = FAILED =>
              /\ step_obj.failure_details = step_call.failure_details
              /\ step_obj.retry_count = step_call.prior.retry_count + 1
        /\ step_call.new_status # FAILED =>
              /\ step_obj.failure_details = step_call.prior.failure_details
              /\ step_obj.retry_count = step_call.prior.retry_count

\* a FAILED step has just been moved to COMPLETED and keeps its history
C2_Witness ==
    /\ step_call.applied
    /\ step_call.prior.status = FAILED
    /\ step_call.new_status = COMPLETED
    /\ step_obj.failure_details = "timeout"
    /\ step_obj.retry_count = 2

\* ---- C3

\* C3: each step's retry_count equals the number of transitions into FAILED
\* applied to it since its Task was created (so it never decreases and is
\* never reset by a non-FAILED transition).
C3_RetryCountCountsFailures ==
    ~IsNone(current_task) =>
        /\ Len(failed_transitions) = Len(current_task.steps)
        /\ \A i \in 1..Len(current_task.steps) :
              current_task.steps[i].retry_count = failed_transitions[i]

\* a step failed twice and was then moved to a non-FAILED status
C3_Witness ==
    /\ ~IsNone(current_task)
    /\ \E i \in 1..Len(current_task.steps) :
          /\ current_task.steps[i].retry_count = 2
          /\ failed_transitions[i] = 2
          /\ current_task.steps[i].status = COMPLETED

\* ---- C4

NoColon(text) == \A i \in 1..Len(text) : text[i] # ":"

\* C4: for every evaluator reply string without a colon, can_merge_tasks
\* returns (False, "Failed to parse LLM response") and raises nothing.
C4_NoColonReplyDegrades ==
    (evaluator_reply.kind = "ai_str" /\ NoColon(evaluator_reply.content))
        => merge_decision = Returned(FALSE, FailedToParse)

\* ---- C5

\* C5: with a current Task and a "merge" decision, add_task ends by raising
\* (NotImplementedError once the merge-construction reply has arrived) and the
\* current Task and every file are as before the call.
C5_MergeRaisesAndChangesNothing ==
    [][(last'.op = "add_task" /\ ~IsNone(current_task)) =>
         \A evaluator \in EvalResponses :
           (can_merge_tasks(evaluator).raised = None
            /\ can_merge_tasks(evaluator).can_merge) =>
             \A request \in AddRequests, merger \in MergeResponses :
               AddTask(request.description, request.goal, request.details,
                       evaluator, merger, NoResponse)
               => /\ last'.raised # None
                  /\ merger.kind # "raise" => last'.raised = "NotImplementedError"
                  /\ current_task' = current_task
                  /\ files' = files]_vars

\* add_task has just raised NotImplementedError on a Task with progress
C5_Witness ==
    /\ last = Call("add_task", "NotImplementedError")
    /\ ~IsNone(current_task)
    /\ n_updates > 0
    /\ \E i \in 1..Len(current_task.steps) : current_task.steps[i].status # OPEN

\* ---- C6

\* C6: once an add_new_task call has ended, returned or failed, its pause()
\* has been followed by a resume(): the executor is not left paused.
C6_ResumedAfterAddNewTask ==
    last.op = "add_new_task" => paused = FALSE

\* ---- C7

\* add_task on its create path (no current Task, or a "no merge" decision)
\* with a planner reply: the Task installed is new and is the one asked for
FreshTaskInstalled(request, planner) ==
    /\ last' = Call("add_task", None)
    /\ ~IsNone(current_task')
    /\ current_task'.task_id # current_task.task_id
    /\ current_task'.description = request.description
    /\ current_task'.current_goal = request.goal
    /\ current_task'.steps = generate_steps(planner)
    /\ AllOpenNoRetry(current_task')

\* C7: add_task, with no current Task or on a "no merge" decision, ends with
\* a freshly created Task installed as current: new id, the given description
\* and goal, the planner's steps, nothing of the prior Task.
C7_AddTaskInstallsFreshTask ==
    [][\A request \in AddRequests, replies \in AddTaskReplies :
          ( /\ replies[3] # NoResponse
            /\ replies[3].kind # "raise"
            /\ AddTask(request.description, request.goal, request.details,
                       replies[1], replies[2], replies[3]) )
          => FreshTaskInstalled(request, replies[3])]_vars

\* the same for descriptions whose scratchpad path can be opened
C7_FreshTaskWhenPathWritable ==
    [][\A request \in AddRequests, replies \in AddTaskReplies :
          ( /\ replies[3] # NoResponse
            /\ replies[3].kind # "raise"
            /\ PathWritable(generate_scratchpad_path(
                                TaskName(request.description), 0))
            /\ AddTask(request.description, request.goal, request.details,
                       replies[1], replies[2], replies[3]) )
          => FreshTaskInstalled(request, replies[3])]_vars

\* ---- C8

\* create_task with a planner reply: no error, the Task is current, its
\* snapshot is on disk, every step is OPEN with retry_count 0
CreatedAndInstalled ==
    /\ last' = Call("create_task", None)
    /\ ~IsNone(current_task')
    /\ current_task'.task_id = uuid_count + 1
    /\ current_task'.scratchpad_path \in DOMAIN files'
    /\ AllOpenNoRetry(current_task')

\* C8: create_task completes without error for every planner reply, writes
\* the initial snapshot, installs the new Task, all steps OPEN, retry_count 0.
C8_CreateTaskCompletes ==
    [][\A request \in CreateRequests, planner \in PlannerResponses :
          ( /\ planner.kind # "raise"
            /\ CreateTask(request.description, request.goal, request.details,
                          planner) )
          => CreatedAndInstalled]_vars

\* the same for descriptions whose scratchpad path can be opened
C8_CreateTaskCompletesWhenPathWritable ==
    [][\A request \in CreateRequests, planner \in PlannerResponses :
          ( /\ planner.kind # "raise"
            /\ PathWritable(generate_scratchpad_path(
                                TaskName(request.description), 0))
            /\ CreateTask(request.description, request.goal, request.details,
                          planner) )
          => CreatedAndInstalled]_vars

\* ---- C9

\* how a line of a planner reply reads after strip()
LineKind(raw) ==
    LET line == Strip(raw) IN
    IF line = <<>> THEN "blank"
    ELSE IF Head(line) = "STEP:" THEN "STEP"
    ELSE IF Head(line) = "REASONING:" THEN "REASONING"
    ELSE "other"

\* the text after the marker of a STEP or REASONING line
Payload(raw) == Strip(Tail(Strip(raw)))

\* the STEP block opened at line i runs to the line before the next STEP
\* marker, or to the end of the reply
BlockEnd(lines, i) ==
    LET later == {j \in (i + 1)..Len(lines) : LineKind(lines[j]) = "STEP"}
    IN IF later = {} THEN Len(lines)
       ELSE (CHOOSE j \in later : \A k \in later : j <= k) - 1

ReasoningLines(lines, i) ==
    {j \in (i + 1)..BlockEnd(lines, i) : LineKind(lines[j]) = "REASONING"}

LastReasoning(lines, i) ==
    CHOOSE j \in ReasoningLines(lines, i) : \A k \in ReasoningLines(lines, i) : k <= j

ReceivedReasoning(lines, i) == ReasoningLines(lines, i) # {}

Complete(lines, i) ==
    /\ ReasoningLines(lines, i) # {}
    /\ Payload(lines[i]) # <<>>
    /\ Payload(lines[LastReasoning(lines, i)]) # <<>>

\* the positions in keep, in reply order
RECURSIVE InOrder(_, _, _)
InOrder(lines, i, keep) ==
    IF i > Len(lines) THEN <<>>
    ELSE IF i \in keep THEN <<i>> \o InOrder(lines, i + 1, keep)
    ELSE InOrder(lines, i + 1, keep)

StepLinePositions(lines) == {i \in 1..Len(lines) : LineKind(lines[i]) = "STEP"}

BlocksWithReasoning(lines) ==
    InOrder(lines, 1, {i \in StepLinePositions(lines) : ReceivedReasoning(lines, i)})

CompleteBlocks(lines) ==
    InOrder(lines, 1, {i \in StepLinePositions(lines) : Complete(lines, i)})

\* C9 as stated: one Step, in reply order, for each STEP block that received
\* a REASONING line, carrying the block's description and a reasoning of the
\* block.
C9_OneStepPerBlockWithReasoning ==
    LET blocks == BlocksWithReasoning(response) IN
    /\ Len(parsed_steps) = Len(blocks)
    /\ \A k \in 1..Len(blocks) :
          /\ k <= Len(parsed_steps)
          /\ parsed_steps[k].description = Payload(response[blocks[k]])
          /\ \E j \in ReasoningLines(response, blocks[k]) :
                parsed_steps[k].reasoning = Payload(response[j])

RECURSIVE WithoutBlankLines(_)
WithoutBlankLines(lines) ==
    IF lines = <<>> THEN <<>>
    ELSE IF LineKind(Head(lines)) = "blank" THEN WithoutBlankLines(Tail(lines))
    ELSE <<Head(lines)>> \o WithoutBlankLines(Tail(lines))

\* C9 amended: one Step, in reply order, for each STEP block with a non-empty
\* description whose last REASONING line is non-empty, carrying that
\* description and that reasoning, OPEN with retry_count 0; every other block
\* is dropped; blank lines have no effect.
C9_OneStepPerCompleteBlock ==
    LET blocks == CompleteBlocks(response) IN
    /\ Len(parsed_steps) = Len(blocks)
    /\ \A k \in 1..Len(blocks) :
          parsed_steps[k] =
              Step(Payload(response[blocks[k]]),
                   Payload(response[LastReasoning(response, blocks[k])]))
    /\ _parse_steps_from_llm_response(WithoutBlankLines(response)) = parsed_steps

\* a reply with a complete block and a block that received a REASONING
\* line but is dropped
C9_Witness ==
    /\ Len(parsed_steps) = 1
    /\ \E i \in 1..Len(response) :
          /\ LineKind(response[i]) = "STEP"
          /\ ~Complete(response, i)
          /\ ReceivedReasoning(response, i)

\* ---- C10

\* C10: whenever a Task is current (so after every successful create_task
\* and update_step_status), its snapshot file holds exactly one step block
\* per step, in order, with the step's description and status.
C10_SnapshotMirrorsCurrentTask ==
    ~IsNone(current_task) =>
        /\ current_task.scratchpad_path \in DOMAIN files
        /\ ReadSteps(files[current_task.scratchpad_path]) = StepPairs(current_task)

\* the snapshot has been rewritten by updates and shows a failed step
C10_Witness ==
    /\ last = Call("update_step_status", None)
    /\ n_updates >= 2
    /\ Len(current_task.steps) = 2
    /\ current_task.steps[2].status = FAILED
    /\ current_task.steps[1].status = COMPLETED
    /\ ReadSteps(files[current_task.scratchpad_path]) = StepPairs(current_task)

\* ---- C11

\* C11: set_agent_session(B) called while another session A holds the slot
\* attempts a disconnect of A; when the call returns, whether that
\* disconnect succeeded or failed, nothing is raised and the slot holds B.
C11_AgentSlotReassigned ==
    [][/\ \A sid \in Sids :
             (/\ set_agent_call.pc = "idle"
              /\ sm_last'.sid = sid \/ set_agent_call'.sid = sid
              /\ SetAgentSession(sid)) =>
                 IF agent_sid \in {NoSid, sid}
                 THEN agent_sid' = sid /\ set_agent_call' = NoSetAgentCall
                 ELSE /\ set_agent_call' =
                            [pc |-> "disconnect", sid |-> sid, target |-> agent_sid]
                      /\ agent_sid' = agent_sid
       /\ \A outcome \in SioOutcomes :
             (/\ set_agent_call.pc = "disconnect"
              /\ sm_last'.result = outcome
              /\ SetAgentSessionResumes(outcome)) =>
                 /\ agent_sid' = set_agent_call.sid
                 /\ sm_last'.raised = None
                 /\ sm_last'.evicted = set_agent_call.target]_vars

\* B has taken the slot from A although the disconnect of A failed and A
\* still has its session record
C11_Witness ==
    /\ sm_last.op = "set_agent_session"
    /\ sm_last.evicted \in SessionIds(sessions)
    /\ sm_last.result = "raise"
    /\ sm_last.raised = None
    /\ agent_sid = sm_last.sid
    /\ agent_sid # sm_last.evicted

\* ---- C12

\* C12: after remove_session(id) has returned, the session map holds no
\* record for id and the agent slot does not hold id.
C12_RemovedSessionHoldsNothing ==
    sm_last.op = "remove_session" =>
        /\ sm_last.sid \notin SessionIds(sessions)
        /\ agent_sid # sm_last.sid

\* ---- C13

\* C13: send_to_agent raises nothing; it returns True exactly when an agent
\* slot is assigned and the send succeeded, and then the event reached the
\* slot holder and nobody else; when it returns False the event reached
\* nobody.
C13_SendToAgent ==
    sm_last.op = "send_to_agent" =>
        /\ sm_last.raised = None
        /\ sm_last.sid = agent_sid
        /\ (sm_last.result = "True") = (agent_sid # NoSid /\ sm_last.failed = {})
        /\ sm_last.delivered = IF sm_last.result = "True" THEN {agent_sid} ELSE {}

\* an agent slot is assigned, the send failed and send_to_agent returned False
C13_Witness ==
    /\ sm_last.op = "send_to_agent"
    /\ agent_sid # NoSid
    /\ sm_last.failed = {agent_sid}
    /\ sm_last.result = "False"
    /\ Used(sessions) >= 2

\* ---- C14

\* C14: a broadcast_agent_event call, whatever set_session_data and
\* remove_session calls ran while it awaited its sends, ends without
\* raising, and no recipient is both reached and failed.
C14_BroadcastCompletes ==
    sm_last.op = "broadcast_agent_event" =>
        /\ sm_last.raised = None
        /\ sm_last.delivered \cap sm_last.failed = {}

\* ---- C15, C16, C17 (server.py handlers)

\* C15: a session record exists from the moment a connection is admitted
\* until it is disconnected, and none exists afterwards: the connections
\* that are admitted and not yet disconnected are exactly those with a record
\* in the session map.
C15_RecordWhileConnected ==
    \A sid \in ServerSids :
        /\ sid \in live => sid \in SessionIds(sessions)
        /\ sid \notin live => sid \notin SessionIds(sessions)

\* the credential a query string presents: what follows "auth=" in the first
\* '&'-separated parameter that starts with "auth="; NoneStr when there is none
PresentedCredential(query_string) ==
    LET params == Split(query_string, "&")
        auth == {i \in 1..Len(params) :
                     Len(params[i]) > 0 /\ params[i][1] = "auth="}
    IN IF auth = {} THEN NoneStr
       ELSE Tail(params[CHOOSE i \in auth : \A j \in auth : i <= j])

\* C16: a connection that presents no credential, an empty one or one that
\* differs from the configured key is sent one status "error" and is then
\* disconnected, and never a status "connected"; a connection that presents
\* the configured key is sent status "connected" and is not disconnected.
C16_OnlyMatchingCredentialAdmitted ==
    IF PresentedCredential(query) = WS_API_KEY
    THEN /\ Len(connect_out) = 1
         /\ connect_out[1] # Disconnected
         /\ connect_out[1].status = "connected"
    ELSE /\ Len(connect_out) = 2
         /\ connect_out[1] # Disconnected
         /\ connect_out[1].status = "error"
         /\ connect_out[2] = Disconnected

\* C17: an add_task event is carried to the orchestrator only when the agent
\* slot is assigned to a session of the session map and the executor is
\* initialised; otherwise its sender is sent exactly one status "error", the
\* executor is not paused and the Task and its snapshot stay as they were.
C17_AddTaskCarriedOnlyWhenAgentReady ==
    [][handler_last'.op = "add_task" =>
         \A data \in AddTaskData :
           \A replies \in HandlerReplies(data) :
             AddTaskHandler(handler_last'.sid, data, replies[1], replies[2], replies[3])
             => /\ handler_last'.carried
                      => is_agent_connected(sessions, agent_sid) /\ agent_instance
                /\ ~(is_agent_connected(sessions, agent_sid) /\ agent_instance)
                      => /\ ~handler_last'.carried
                         /\ Len(handler_last'.sent) = 1
                         /\ handler_last'.sent[1].status = "error"
                         /\ paused' = paused
                         /\ current_task' = current_task
                         /\ files' = files]_vars

\* a valid add_task event was refused although the executor holds a task and
\* the agent slot is assigned: the slot's session has no record
C17_Witness ==
    /\ handler_last.op = "add_task"
    /\ ~handler_last.carried
    /\ handler_last.sent = <<ConnectionStatus("error", "No agent is currently connected")>>
    /\ agent_sid # NoSid
    /\ agent_instance
    /\ ~IsNone(current_task)


\* ---- C18, C20 (EnhancedAgent.step, and add_task running beside it)

\* the errors the action results of a result list carry
ErrorsOf(last_result) ==
    IF last_result = NoneList THEN {}
    ELSE {last_result[i] : i \in 1..Len(last_result)} \ {None}

\* C18: when step() has selected a step, run the executor and returned
\* normally, the selected step is FAILED with an error of the latest result
\* list as failure detail if some action result carried an error, and
\* COMPLETED otherwise (so never IN_PROGRESS).
C18_StepEndsFailedOrCompleted ==
    (step_last.returned = "normal" /\ step_last.selected) =>
        IF ErrorsOf(step_last.last_result) # {}
        THEN /\ step_last.step.status = FAILED
             /\ step_last.step.failure_details \in ErrorsOf(step_last.last_result)
        ELSE step_last.step.status = COMPLETED

\* C20: from the start of an add_task call's merge evaluation for the current
\* Task until that call ends, no update_step_status is applied to that Task.
C20_NoUpdateDuringAddTask ==
    add_call.pc # "idle" => add_call.updates = 0

\* ---- C19 (update_step_status calls in sequence)

\* one status update applied to a Task
ApplyUpdate(task, u) ==
    [task EXCEPT !.steps[PyPos(Len(task.steps), u.step_index)] =
        [@ EXCEPT !.status = u.new_status,
                  !.failure_details = IF u.new_status = FAILED
                                      THEN u.failure_details ELSE @,
                  !.retry_count = IF u.new_status = FAILED THEN @ + 1 ELSE @]]

\* the first n of the updates applied to a Task one after another
RECURSIVE ApplyUpdates(_, _, _)
ApplyUpdates(task, updates, n) ==
    IF n = 0 THEN task
    ELSE ApplyUpdate(ApplyUpdates(task, updates, n - 1), updates[n])

\* C19: after n successful status updates of a Task, the Task is what applying
\* the n updates one after another in call order gives, and each call left on
\* disk, when it returned, the snapshot of the Task as it was right after that
\* update: n snapshots, the k-th showing the first k updates.
C19_UpdatesInOrderEachWithSnapshot ==
    (~IsNone(current_task) /\ history.base.task_id = current_task.task_id) =>
        LET n == Len(history.updates) IN
        /\ current_task = ApplyUpdates(history.base, history.updates, n)
        /\ Len(history.snapshots) = n
        /\ \A k \in 1..n :
              history.snapshots[k] =
                  _generate_markdown(
                      ApplyUpdates(history.base, history.updates, k), now)

\* three updates of one Task, the second a failure and the third undoing it
C19_Witness ==
    /\ ~IsNone(current_task)
    /\ history.base.task_id = current_task.task_id
    /\ Len(history.updates) = 3
    /\ history.updates[1].new_status = IN_PROGRESS
    /\ history.updates[2].new_status = FAILED
    /\ history.updates[3].new_status = COMPLETED
    /\ history.snapshots[2] # history.snapshots[3]

\* ---- C21 (what a status update leaves alone)

\* a Task without its steps
Header(task) == [task EXCEPT !.steps = <<>>]

\* C21: a successful update_step_status(index, ...) changes only the step at
\* index: the other steps, the number and order of the steps and the Task's
\* id, description, goal, details, notes, scratchpad path and max-retry
\* budget are after the call what they were before it.
C21_UpdateChangesOneStep ==
    [][(last'.op = "update_step_status" /\ last'.raised = None) =>
         LET u == history'.updates[Len(history'.updates)]
             k == PyPos(Len(current_task.steps), u.step_index)
         IN /\ Header(current_task') = Header(current_task)
            /\ Len(current_task'.steps) = Len(current_task.steps)
            /\ \A i \in 1..Len(current_task.steps) :
                  i # k => current_task'.steps[i] = current_task.steps[i]]_vars

\* the second step of a two-step Task has failed with "timeout" and the first
\* is still as the planner gave it
C21_Witness ==
    /\ last = Call("update_step_status", None)
    /\ Len(history.updates) = 1
    /\ history.updates[1] = StatusUpdate(1, FAILED, "timeout")
    /\ Len(current_task.steps) = 2
    /\ current_task.steps[2].status = FAILED
    /\ current_task.steps[2].failure_details = "timeout"
    /\ current_task.steps[2].retry_count = 1
    /\ current_task.steps[1] = history.base.steps[1]
    /\ current_task.steps[1].status = OPEN

\* ---- C22 (indices outside 0..stepCount-1)

\* C22: every index outside 0..stepCount-1, negative ones included, is out of
\* bounds: no update_step_status call with such an index has succeeded, and
\* get_step returns nothing for it.
C22_OutOfRangeIndexRefused ==
    /\ \A k \in 1..Len(history.updates) :
          history.updates[k].step_index \in 0..(Len(history.base.steps) - 1)
    /\ ~IsNone(current_task) =>
          \A step_index \in (0 - Len(current_task.steps) - 1)..Len(current_task.steps) :
              step_index \notin 0..(Len(current_task.steps) - 1)
                  => get_step(step_index) = NoStep

\* ---- C23 (the Task History section of the snapshot)

\* the lines of the "## Task History" section of a snapshot
TaskHistory(doc) ==
    LET from == CHOOSE i \in 1..Len(doc) : doc[i].kind = "## Task History"
        to == CHOOSE i \in 1..Len(doc) : doc[i].kind = "## Steps"
    IN SelectSeq(SubSeq(doc, from + 1, to - 1), LAMBDA line : line # Blank)

\* C23: the Task History section of the snapshot holds exactly one line, and
\* a snapshot write made by a status update leaves that line, with the
\* timestamp written when the Task was created, as it was.
C23_HistoryLineKeepsCreationTime ==
    [][(last'.op = "update_step_status" /\ last'.raised = None) =>
         LET path == current_task.scratchpad_path IN
         /\ Len(TaskHistory(files'[path])) = 1
         /\ TaskHistory(files'[path]) = TaskHistory(files[path])]_vars

\* ---- C24 (which step EnhancedAgent.step runs)

\* the positions of the steps of the current Task that are OPEN or FAILED
OpenOrFailed ==
    IF IsNone(current_task) THEN {}
    ELSE {i \in 1..Len(current_task.steps) :
              current_task.steps[i].status = OPEN
              \/ current_task.steps[i].status = FAILED}

\* C24: step() starts the lowest-index step that is OPEN or FAILED, so a step
\* that ended FAILED is the one the next step() call runs, before any later
\* step; when no step is OPEN or FAILED, step() changes no step and writes no
\* snapshot.
C24_StepRunsLowestOpenOrFailed ==
    [][(step_run.pc = "idle" /\ StepBegins) =>
         IF OpenOrFailed = {}
         THEN /\ current_task' = current_task
              /\ files' = files
              /\ step_run' = step_run
         ELSE LET k == step_run'.index + 1 IN
              /\ step_run'.pc = "executing"
              /\ k \in OpenOrFailed
              /\ \A i \in OpenOrFailed : k <= i
              /\ current_task'.steps[k].status = IN_PROGRESS
              /\ (/\ step_last.selected
                  /\ step_last.task_id = current_task.task_id
                  /\ step_last.step.status = FAILED)
                 => step_run'.step = [step_last.step EXCEPT !.status = IN_PROGRESS]]_vars

\* the first step of a two-step Task failed and is being run again while the
\* second step is still OPEN
C24_Witness ==
    /\ step_run.pc = "executing"
    /\ step_run.index = 0
    /\ step_run.step.retry_count = 1
    /\ step_last.selected
    /\ step_last.step.status = FAILED
    /\ step_last.task_id = step_run.task_id
    /\ ~IsNone(current_task)
    /\ Len(current_task.steps) = 2
    /\ current_task.steps[1].status = IN_PROGRESS
    /\ current_task.steps[2].status = OPEN

\* ---- C25 (the retry budget is not enforced)

\* C25: a transition into FAILED on a step whose retry_count has reached
\* max_retries is accepted and counts once more, and a step becomes HUMAN
\* only when that status is asked for.
C25_RetryBudgetNotEnforced ==
    step_call.applied =>
        /\ (step_call.new_status = FAILED /\ step_call.prior.retry_count >= max_retries)
              => /\ step_obj.status = FAILED
                 /\ step_obj.retry_count = step_call.prior.retry_count + 1
        /\ step_obj.status = HUMAN => step_call.new_status = HUMAN

\* a step has failed more often than the budget allows and is FAILED again
C25_Witness ==
    /\ step_call.applied
    /\ step_call.new_status = FAILED
    /\ step_call.prior.retry_count >= max_retries
    /\ step_obj.status = FAILED
    /\ step_obj.retry_count > max_retries

\* ---- C26 (the result of a step and the Task it was selected from)

\* C26: when the executor returns to a step() call and the current Task is
\* not the Task the step was selected from, because add_task or create_task
\* installed another one meanwhile, the end of that step() call changes no
\* step of the current Task.
C26_ResultAppliedOnlyToItsTask ==
    [][(/\ step_run.pc = "executing"
        /\ step_run'.pc = "idle"
        /\ ~IsNone(current_task)
        /\ current_task.task_id # step_run.task_id)
         => current_task'.steps = current_task.steps]_vars

\* ---- C27 (steps IN_PROGRESS at the same time)

InProgress ==
    IF IsNone(current_task) THEN {}
    ELSE {i \in 1..Len(current_task.steps) :
              current_task.steps[i].status = IN_PROGRESS}

\* C27: at most one step of the current Task is IN_PROGRESS.
C27_AtMostOneInProgress ==
    Cardinality(InProgress) <= 1

\* ---- C29 (a Task that is not replaced runs to completion)

\* C29: step() calls made one after another bring a Task that is not
\* replaced to the state where every step is COMPLETED; a step() call on a
\* Task without an OPEN or FAILED step changes nothing (C24), so whenever no
\* call is in flight and no step is OPEN or FAILED, every step is COMPLETED.
C29_AtRestOnlyWhenAllCompleted ==
    (/\ step_run.pc = "idle"
     /\ add_call.pc = "idle"
     /\ ~IsNone(current_task)
     /\ OpenOrFailed = {})
        => \A i \in 1..Len(current_task.steps) :
               current_task.steps[i].status = COMPLETED

\* ---- C28 (create_task calls that overlap)

\* C28: once every create_task call that was made has ended, the current
\* Task is the one created by the call that began last (taken here for the
\* runs in which every call returned normally).
C28_LastAdmittedIsCurrent ==
    (/\ calls # <<>>
     /\ \A k \in 1..Len(calls) : calls[k].returned = "normal")
        => current_task.task_id = calls[Len(calls)].task_id

====
